---- MODULE Spec2Model ----
(***************************************************************************)
(* A model of vfxwindow's Nuke adapter (src/vfxwindow/nuke.py): the pane   *)
(* locator, the per-window callback registry and its mirror in the host's  *)
(* global callback tables, the show / hide / close lifecycle of one window *)
(* identifier, the settings record written by saveWindowPosition, the     *)
(* pane container a docked window's tab sits in, and the host dispatch of  *)
(* the package (src/vfxwindow/__init__.py).                                *)
(*                                                                         *)
(* The host (the nuke module) is outside the repository.  Its callback     *)
(* tables are modelled as the adapter drives them: every add call appends  *)
(* one registration, every remove call deletes one matching registration   *)
(* and is silent when there is none.  The interpreter is Python 2, which   *)
(* the package targets (src/vfxwindow/__init__.py:45 uses the file type):  *)
(* dict.keys() is a list, so deleting while iterating over it is safe.     *)
(***************************************************************************)
EXTENDS Integers, Sequences, FiniteSets, Bags, TLC

\* Python's None, where the model holds it in a string-valued place.
None == "None"

\* ------------------------------------------------------------------ bounds

\* Calls of the addCallback* methods over one run.
MaxAdds == 2
\* Window objects constructed for the one window identifier over one run.
MaxWindows == 2
\* Largest width / height of a window or pane.
MaxSize == 2
\* Screen positions tried run from Padding - 1 to Padding + MaxOffset.
MaxOffset == 1
\* Width and height of the screen.
ScreenSize == 14
\* Named panels the host resolves to a pane in a drawn layout, and the
\* highest index a drawn layout gives a panel kind.
MaxPanels == 2
MaxIndex == 2
\* Panes of the host.
MaxPanes == 2
\* Tabs of other panels a pane container holds next to the window's tab.
MaxTabs == 2

\* ------------------------------------------------------------------ values

Funcs == {"f1", "f2"}
NodeClasses == {None, "Grade"}
Groups == {None, "grp"}

\* NukeWindow._CALLBACKS: event kind -> (host add function, host remove function).
CALLBACKS ==
  [onUserCreate  |-> <<"addOnUserCreate", "removeOnUserCreate">>,
   onCreate      |-> <<"addOnCreate", "removeOnCreate">>,
   onScriptLoad  |-> <<"addOnScriptLoad", "removeOnScriptLoad">>,
   onScriptSave  |-> <<"addOnScriptSave", "removeOnScriptSave">>,
   onScriptClose |-> <<"addOnScriptClose", "removeOnScriptClose">>,
   onDestroy     |-> <<"addOnDestroy", "removeOnDestroy">>,
   knobChanged   |-> <<"addKnobChanged", "removeKnobChanged">>,
   updateUI      |-> <<"addUpdateUI", "removeUpdateUI">>]

Kinds == DOMAIN CALLBACKS

\* The padding loadWindowPosition passes to setCoordinatesToScreen.
Padding == 5

Sizes == 1..MaxSize
Positions == (Padding - 1)..(Padding + MaxOffset)

\* The panel-name prefix each Pane classmethod formats with its index.
PanelPrefix ==
  [Properties    |-> "Properties",
   NodeGraph     |-> "DAG",
   Viewer        |-> "Viewer",
   Progress      |-> "Progress",
   DopeSheet     |-> "DopeSheet",
   Toolbar       |-> "Toolbar",
   CurveEditor   |-> "Curve Editor",
   PixelAnalyzer |-> "Pixel Analyzer",
   ErrorConsole  |-> "Error Console",
   ScriptEditor  |-> "uk.co.thefoundry.scripteditor",
   Histogram     |-> "uk.co.thefoundry.histogram",
   Waveform      |-> "uk.co.thefoundry.waveformscope",
   Vectorscope   |-> "uk.co.thefoundry.vectorscope"]

\* Mutant of PRIORITY: the Pane classmethods in the order the class defines
\* them.
PRIORITY_DefinitionOrder ==
  <<"Properties", "NodeGraph", "Viewer", "Progress", "DopeSheet", "Toolbar",
    "CurveEditor", "PixelAnalyzer", "ErrorConsole", "ScriptEditor",
    "Histogram", "Waveform", "Vectorscope">>

\* Pane.__PRIORITY
PRIORITY ==
  <<"Properties", "NodeGraph", "Viewer", "DopeSheet", "CurveEditor",
    "PixelAnalyzer", "Progress", "ErrorConsole", "ScriptEditor", "Histogram",
    "Waveform", "Vectorscope", "Toolbar">>

PanelKinds == DOMAIN PanelPrefix

\* A pane of the host; NoPane is the None that nuke.getPaneFor returns.
NoPane == 0
PaneIds == 1..MaxPanes

\* '<prefix>.<index>': the panel name a Pane classmethod formats.
PanelName(kind, index) == <<PanelPrefix[kind], index>>
NoPanel == <<>>

VARIABLES
  nukeCallbacks,    \* host: bag of active registrations <<window, add function, func, nodeClass>>
  panes,            \* host: panel name -> pane, for the names it resolves
  paneSizes,        \* host: pane -> its width and height
  windowPane,       \* host: the pane nuke.getPaneFor(WindowID) returns
  windowInstances,  \* class: the instance registry's entry for WindowID, if any
  WindowDockable,   \* class: the WindowDockable attribute, "absent" when not set
  WindowDefaults,   \* class: WindowDefaults['docked'], "absent" when not set
  windowSettings,   \* the persisted settings record of WindowID
  window,           \* number of the newest window object, 0 before the first
  windowHidden,     \* NukeWindow.__windowHidden
  visible,          \* toolkit: the window is shown
  closed,           \* the window's isClosed()
  dockable,         \* the window's dockable()
  dockableRaw,      \* the window's dockable(raw=True)
  geometry,         \* toolkit: the window's own width, height, x, y
  numAdds,          \* addCallback* calls made so far
  container,        \* host: the pane container that holds the docked window's tab
  live,             \* toolkit: the window objects of WindowID that are open
  pkg,              \* the package import: host modules, executable, stdout, outcome
  last              \* the last operation and its outcome

hostVars == <<nukeCallbacks, panes, paneSizes, windowPane>>
classVars == <<windowInstances, WindowDockable, WindowDefaults>>
windowVars == <<window, windowHidden, visible, closed, dockable, dockableRaw, geometry>>
vars == <<nukeCallbacks, panes, paneSizes, windowPane, windowInstances, WindowDockable,
          WindowDefaults,
          windowSettings, window, windowHidden, visible, closed, dockable,
          dockableRaw, geometry, numAdds, container, live, pkg, last>>

\* The variables the callback, settings and pane operations leave alone.
otherVars == <<container, live, pkg>>

\* ------------------------------------------------------------------ host panes

\* nuke.getPaneFor(name)
getPaneFor(layout, name) == IF name \in DOMAIN layout THEN layout[name] ELSE NoPane

\* The Pane classmethod of a kind (Properties, NodeGraph, ...), name=False.
PaneOfKind(layout, kind, index) == getPaneFor(layout, PanelName(kind, index))

RECURSIVE AutoFrom(_, _)
AutoFrom(layout, i) ==
  IF i > Len(PRIORITY) THEN NoPane
  ELSE IF PaneOfKind(layout, PRIORITY[i], 1) # NoPane
       THEN PaneOfKind(layout, PRIORITY[i], 1)
       ELSE AutoFrom(layout, i + 1)

\* Pane.auto
PaneAuto(layout) == AutoFrom(layout, 1)

\* Pane.get
PaneGet(layout, value) ==
  IF value # NoPanel THEN getPaneFor(layout, value) ELSE PaneAuto(layout)

RECURSIVE FindFrom(_, _, _, _)
FindFrom(layout, current, i, index) ==
  IF i > Len(PRIORITY) THEN NoPanel
  ELSE IF PaneOfKind(layout, PRIORITY[i], index) = NoPane
       THEN FindFrom(layout, current, i + 1, 1)
       ELSE IF PaneOfKind(layout, PRIORITY[i], index) = current
            THEN PanelName(PRIORITY[i], index)
            ELSE FindFrom(layout, current, i, index + 1)

\* Pane.find(WindowID), given the pane the host resolves WindowID to.
PaneFind(layout, current) ==
  IF current = NoPane THEN NoPanel ELSE FindFrom(layout, current, 1, 1)

\* ------------------------------------------------------------------ host callbacks

\* The host table a nuke.add* / nuke.remove* function works on, by event kind.
HostTable(fn) == CHOOSE k \in Kinds : CALLBACKS[k][1] = fn \/ CALLBACKS[k][2] = fn

IsAddFunction(fn) == \E k \in Kinds : CALLBACKS[k][1] = fn

\* The host's add function: one more registration of the key in its table.
\* The specification's reading of the host is followed here: a second add of
\* a key that is already registered is a duplicate registration.
HostAdd(host, key) == host (+) SetToBag({key})

\* The host's remove function: takes one registration of the key away, and
\* does nothing when there is none.
HostRemove(host, key) == host (-) SetToBag({key})

\* getattr(nuke, fn)(func) or getattr(nuke, fn)(func, nodeClass=nodeClass),
\* called by window object w.
nukeCall(host, fn, w, func, nodeClass) ==
  IF IsAddFunction(fn)
  THEN HostAdd(host, <<w, HostTable(fn), func, nodeClass>>)
  ELSE HostRemove(host, <<w, HostTable(fn), func, nodeClass>>)

\* The calls one loop over a set of registry entries makes: fn(kind) for each.
RECURSIVE nukeCallAll(_, _, _, _)
nukeCallAll(host, which, w, entries) ==
  IF entries = {} THEN host
  ELSE LET e == CHOOSE x \in entries : TRUE
       IN nukeCallAll(nukeCall(host, CALLBACKS[e[2]][which], w, e[3], e[4]),
                      which, w, entries \ {e})

\* ------------------------------------------------------------------ registry

\* AbstractWindow.windowInstance(): the registry entry, here as a set of at
\* most one record [window, groups, entries]; entries are
\* <<group, kind, func, nodeClass>>.
NewInstance(w) == [window |-> w, groups |-> {}, entries |-> {}]

TheInstance == CHOOSE i \in windowInstances : TRUE

\* _addNukeCallbackGroup followed by ...['callback'][group][kind][func].add(nodeClass)
AddEntry(inst, group, kind, func, nodeClass) ==
  [inst EXCEPT !.groups = @ \cup {group},
               !.entries = @ \cup {<<group, kind, func, nodeClass>>}]

\* _registerNukeCallbacks: one add call per registry entry.
registerNukeCallbacks(host, inst, w) == nukeCallAll(host, 1, w, inst.entries)

\* _unregisterNukeCallbacks: one remove call per registry entry.
unregisterNukeCallbacks(host, inst, w) == nukeCallAll(host, 2, w, inst.entries)

\* removeCallbacks: the groups it selects.
RemoveCallbacksGroups(inst, group) ==
  IF group = None THEN inst.groups
  ELSE IF group \notin inst.groups THEN {} ELSE {group}

\* removeCallbacks: the registry after `del windowInstance['callback'][group]`
\* for each selected group.
RemoveCallbacksInstance(inst, groups) ==
  [inst EXCEPT !.groups = @ \ groups,
               !.entries = {e \in @ : e[1] \notin groups}]

\* removeCallback: the groups it selects.  Line 464 overwrites the empty
\* list line 463 chose for a group that is not registered.
RemoveCallbackGroups(inst, group) ==
  IF group = None THEN inst.groups ELSE {group}

\* removeCallback: the entries its loops reach.  The loop variable nodeClass
\* shadows the parameter, so every filter of func matches.
RemoveCallbackMatches(inst, groups, func, nodeClass) ==
  {e \in inst.entries : e[1] \in groups /\ e[3] = func}

\* ------------------------------------------------------------------ settings

\* dict[key] = value
Put(dict, key, value) == (key :> value) @@ dict

EmptyDict == [k \in {} |-> 0]

\* The settings record: the 'nuke' key, its 'docked' value ("absent" without
\* one), the 'dock' branch with its 'panel', and the 'main' branch.
NoSettings ==
  [nuke |-> FALSE, docked |-> "absent", hasDock |-> FALSE, dock |-> EmptyDict,
   panel |-> NoPanel, hasMain |-> FALSE, main |-> EmptyDict]

PyBool(b) == IF b THEN "True" ELSE "False"

\* NukeWindow.width and NukeWindow.height of a floating window: both return
\* the toolkit's width().
FloatingWidth(g) == g.width
FloatingHeight(g) == g.width

\* NukeWindow.width and NukeWindow.height of a docked window whose pane
\* resolves: both return the pane's width().
DockedWidth(sizes, pane) == sizes[pane].width
DockedHeight(sizes, pane) == sizes[pane].width

\* The message of the RuntimeError _parentOverride raises for a window that
\* has no pane and does not exist.
QuantumMessage == "window is currently in a quantum state"

\* The RuntimeError self.width() raises in the docked branch, None when it
\* returns: the 'quantum state' one when WindowID has no pane, and one of the
\* toolkit's own when the pane's widget fails (fault).
WidthError(pane, fault) ==
  IF pane = NoPane THEN QuantumMessage
  ELSE IF fault THEN "Internal C++ object already deleted"
  ELSE None

\* Mutant of Swallowed: the handler swallows every RuntimeError.
Swallowed_Any(msg) == TRUE

\* saveWindowPosition's handler re-raises unless the message is the known one.
Swallowed(msg) == msg = QuantumMessage

\* The exception saveWindowPosition lets out, None when it returns.
saveWindowPositionError(d, pane, fault) ==
  IF d /\ WidthError(pane, fault) # None /\ ~Swallowed(WidthError(pane, fault))
  THEN "RuntimeError"
  ELSE None

\* saveWindowPosition, docked branch.  The first of the four assignments
\* calls width(); when that raises, none of the four is made.
SaveDocked(s, g, layout, sizes, pane, fault) ==
  LET panel == PaneFind(layout, pane)
      s1 == [s EXCEPT !.hasDock = TRUE,
                      !.panel = IF panel # NoPanel THEN panel ELSE @]
  IN IF WidthError(pane, fault) # None THEN s1
     ELSE [s1 EXCEPT !.dock =
             Put(Put(Put(Put(@, "width", DockedWidth(sizes, pane)),
                         "height", DockedHeight(sizes, pane)),
                     "x", g.x), "y", g.y)]

\* saveWindowPosition, floating branch.
SaveFloating(s, g) ==
  [s EXCEPT !.hasMain = TRUE,
            !.main = Put(Put(Put(Put(@, "width", FloatingWidth(g)),
                                 "height", FloatingHeight(g)),
                             "x", g.x), "y", g.y)]

\* Mutant of saveWindowPosition: the branch is chosen by the stored
\* preference dockable(raw=True) instead of the mode in effect.
saveWindowPosition_ByPreference(s, d, raw, g, layout, sizes, pane, fault) ==
  LET s1 == [s EXCEPT !.nuke = TRUE, !.docked = PyBool(raw)]
  IN IF raw THEN SaveDocked(s1, g, layout, sizes, pane, fault) ELSE SaveFloating(s1, g)

\* saveWindowPosition
saveWindowPosition(s, d, raw, g, layout, sizes, pane, fault) ==
  LET s1 == [s EXCEPT !.nuke = TRUE, !.docked = PyBool(raw)]
  IN IF d THEN SaveDocked(s1, g, layout, sizes, pane, fault) ELSE SaveFloating(s1, g)

\* utils.setCoordinatesToScreen: keep the window, with its padding, on screen.
Clamp(v, size) ==
  IF v < Padding THEN Padding
  ELSE IF v > ScreenSize - Padding - size THEN ScreenSize - Padding - size
  ELSE v

\* loadWindowPosition reads all four stored values or raises KeyError.
HasStoredGeometry(s) ==
  s.nuke /\ s.hasMain /\ {"x", "y", "width", "height"} \subseteq DOMAIN s.main

\* The geometry AbstractWindow.loadWindowPosition falls back to.
DefaultGeometry == [width |-> 1, height |-> 1, x |-> Padding, y |-> Padding]

\* Mutant of loadWindowPosition: each stored value that is present is
\* applied, and the default stands in for each one that is missing.
loadWindowPosition_Partial(s, d, g) ==
  LET Stored(k) == IF s.nuke /\ s.hasMain /\ k \in DOMAIN s.main
                   THEN s.main[k] ELSE DefaultGeometry[k]
  IN IF d THEN g
     ELSE [width |-> Stored("width"), height |-> Stored("height"),
           x |-> Clamp(Stored("x"), Stored("width")),
           y |-> Clamp(Stored("y"), Stored("height"))]

\* loadWindowPosition
loadWindowPosition(s, d, g) ==
  IF d THEN g
  ELSE IF ~HasStoredGeometry(s) THEN DefaultGeometry
  ELSE [width |-> s.main["width"], height |-> s.main["height"],
        x |-> Clamp(s.main["x"], s.main["width"]),
        y |-> Clamp(s.main["y"], s.main["height"])]

\* ------------------------------------------------------------------ operations

Op(name) ==
  [op |-> name, spontaneous |-> FALSE, err |-> None, result |-> 0, saved |-> FALSE]

\* One of the eight addCallback* methods; they differ in the event kind only.
\* addCallbackOnUserCreate and addCallbackOnCreate are called with every
\* callback, filter and group; the six others with one callback, no filter,
\* in the default group.
addCallback(kind, func, nodeClass, group) ==
  /\ window > 0
  /\ numAdds < MaxAdds
  /\ numAdds' = numAdds + 1
  /\ IF windowInstances = {}
     THEN \* _addNukeCallbackGroup subscripts None
          /\ last' = [Op("addCallback") EXCEPT !.err = "TypeError"]
          /\ UNCHANGED <<nukeCallbacks, windowInstances>>
     ELSE /\ windowInstances' = {AddEntry(TheInstance, group, kind, func, nodeClass)}
          /\ nukeCallbacks' =
               IF ~windowHidden
               THEN nukeCall(nukeCallbacks, CALLBACKS[kind][1], window, func, nodeClass)
               ELSE nukeCallbacks
          /\ last' = Op("addCallback")
  /\ UNCHANGED <<panes, paneSizes, windowPane, WindowDockable, WindowDefaults,
                 windowSettings, windowVars>>
  /\ UNCHANGED otherVars

addCallbackOnUserCreate ==
  \E f \in Funcs, nc \in NodeClasses, g \in Groups : addCallback("onUserCreate", f, nc, g)

addCallbackOnCreate ==
  \E f \in Funcs, nc \in NodeClasses, g \in Groups : addCallback("onCreate", f, nc, g)

addCallbackOnScriptLoad ==
  addCallback("onScriptLoad", "f1", None, None)

addCallbackOnScriptSave ==
  addCallback("onScriptSave", "f1", None, None)

addCallbackOnScriptClose ==
  addCallback("onScriptClose", "f1", None, None)

addCallbackOnDestroy ==
  addCallback("onDestroy", "f1", None, None)

addCallbackKnobChanged ==
  addCallback("knobChanged", "f1", None, None)

addCallbackUpdateUI ==
  addCallback("updateUI", "f1", None, None)

\* `del windowInstance['callback'][group][callbackName][func][nodeClass]`:
\* the innermost container is a set, which has no item deletion, so the
\* statement raises TypeError and the registry keeps the entry.
DeleteFromSet(inst, e) == [instance |-> inst, err |-> "TypeError"]

\* removeCallback(func, group, nodeClass); group None selects every group.
removeCallbackOf(func, group, nodeClass) ==
    LET op == Op("removeCallback")
    IN
    /\ window > 0
    /\ IF windowInstances = {}
       THEN /\ last' = [op EXCEPT !.err = "TypeError"]
            /\ UNCHANGED <<nukeCallbacks, windowInstances>>
       ELSE LET inst == TheInstance
                groups == RemoveCallbackGroups(inst, group)
                matches == RemoveCallbackMatches(inst, groups, func, nodeClass)
            IN IF ~(groups \subseteq inst.groups)
               THEN \* windowInstance['callback'][group] of a missing group
                    /\ last' = [op EXCEPT !.err = "KeyError"]
                    /\ UNCHANGED <<nukeCallbacks, windowInstances>>
               ELSE IF matches = {}
               THEN /\ last' = op
                    /\ UNCHANGED <<nukeCallbacks, windowInstances>>
               ELSE \* the first entry the loops reach, in dict and set order
                    \E e \in matches :
                      /\ nukeCallbacks' =
                           nukeCall(nukeCallbacks, CALLBACKS[e[2]][2], window, e[3], e[4])
                      /\ windowInstances' = {DeleteFromSet(inst, e).instance}
                      /\ last' = [op EXCEPT !.err = DeleteFromSet(inst, e).err,
                                            !.result = 1]
    /\ UNCHANGED <<panes, paneSizes, windowPane, WindowDockable, WindowDefaults,
                   windowSettings, windowVars, numAdds>>
    /\ UNCHANGED otherVars

removeCallback ==
  \E func \in Funcs, group \in Groups, nodeClass \in NodeClasses :
    removeCallbackOf(func, group, nodeClass)

\* removeCallbacks(group) called on the window; group None selects every group.
removeCallbacksOf(group) ==
    LET op == Op("removeCallbacks")
    IN
    /\ window > 0
    /\ IF windowInstances = {}
       THEN /\ last' = [op EXCEPT !.err = "TypeError"]
            /\ UNCHANGED <<nukeCallbacks, windowInstances>>
       ELSE LET inst == TheInstance
                groups == RemoveCallbacksGroups(inst, group)
                gone == {e \in inst.entries : e[1] \in groups}
            IN /\ nukeCallbacks' = nukeCallAll(nukeCallbacks, 2, window, gone)
               /\ windowInstances' = {RemoveCallbacksInstance(inst, groups)}
               /\ last' = [op EXCEPT !.result = Cardinality(gone)]
    /\ UNCHANGED <<panes, paneSizes, windowPane, WindowDockable, WindowDefaults,
                   windowSettings, windowVars, numAdds>>
    /\ UNCHANGED otherVars

removeCallbacks == \E group \in Groups : removeCallbacksOf(group)

\* Mutant of HandlesHide: every hide event is handled.
HandlesHide_Always(spontaneous, isClosed) == TRUE

\* hideEvent: the condition under which it unregisters and saves.
HandlesHide(spontaneous, isClosed) == ~spontaneous /\ ~isClosed

\* hideEvent
hideEvent ==
  \E spontaneous \in BOOLEAN :
    /\ window > 0
    /\ visible
    /\ last' = [Op("hideEvent") EXCEPT !.spontaneous = spontaneous,
                                     !.saved = HandlesHide(spontaneous, closed)]
    /\ IF spontaneous
       THEN UNCHANGED visible
       ELSE visible' = FALSE
    /\ IF ~HandlesHide(spontaneous, closed)
       THEN UNCHANGED <<nukeCallbacks, windowHidden, windowSettings>>
       ELSE /\ IF windowInstances # {}
               THEN /\ nukeCallbacks' =
                         unregisterNukeCallbacks(nukeCallbacks, TheInstance, window)
                    /\ UNCHANGED windowHidden
               ELSE \* windowInstance() is None: TypeError, caught
                    /\ windowHidden' = TRUE
                    /\ UNCHANGED nukeCallbacks
            /\ windowSettings' =
                 saveWindowPosition(windowSettings, dockable, dockableRaw,
                                    geometry, panes, paneSizes, windowPane,
                                    FALSE)
    /\ UNCHANGED <<panes, paneSizes, windowPane, classVars, window, closed,
                   dockable, dockableRaw, geometry, numAdds>>
    /\ UNCHANGED otherVars

\* showEvent.  A closed window is not shown again: it is replaced through
\* the class-level show.
showEvent ==
  \E spontaneous \in BOOLEAN :
    /\ window > 0
    /\ ~closed
    /\ visible = spontaneous
    /\ IF spontaneous
       THEN /\ last' = [Op("showEvent") EXCEPT !.spontaneous = TRUE]
            /\ UNCHANGED <<nukeCallbacks, windowHidden, visible>>
       ELSE /\ visible' = TRUE
            /\ IF windowInstances # {}
               THEN /\ nukeCallbacks' =
                         registerNukeCallbacks(nukeCallbacks, TheInstance, window)
                    /\ windowHidden' = FALSE
                    /\ last' = Op("showEvent")
               ELSE \* windowInstance() is None: TypeError out of the handler
                    /\ last' = [Op("showEvent") EXCEPT !.err = "TypeError"]
                    /\ UNCHANGED <<nukeCallbacks, windowHidden>>
    /\ UNCHANGED <<panes, paneSizes, windowPane, classVars, windowSettings, window,
                   closed, dockable, dockableRaw, geometry, numAdds>>
    /\ UNCHANGED otherVars

\* ------------------------------------------------------------------ pane container

\* The pane container of a docked window: whether it floats outside the main
\* window, the tabs of other panels it holds, whether it is open, and whether
\* the window's own tab is open.
NoContainer == [floating |-> FALSE, tabs |-> {}, open |-> FALSE, tabOpen |-> FALSE]

OtherTabs == 1..MaxTabs

\* panel.addToPane(pane): the window becomes a tab of a pane of the main
\* window, next to the panel the pane already shows.
MainContainer == [floating |-> FALSE, tabs |-> {1}, open |-> TRUE, tabOpen |-> TRUE]

\* floating(alternative=True): the twelfth parent of the window exists.
Floating(c) == c.floating

\* siblings(): the count() of the stacked widget, the window's tab included.
Siblings(c) == Cardinality(c.tabs) + 1

\* Mutant of ClosesContainer: every floating container is closed.
ClosesContainer_AnyFloating(c) == Floating(c)

\* closeEvent: the condition under which the ninth parent, the floating
\* container, is closed instead of the seventh, the window's tab.
ClosesContainer(c) == Floating(c) /\ Siblings(c) = 1

\* The toolkit's close() of the container: it goes with everything it holds.
CloseWholeContainer(c) == [c EXCEPT !.open = FALSE, !.tabs = {}, !.tabOpen = FALSE]

\* The toolkit's close() of the window's tab, and deleteQtWindow(WindowID).
CloseOwnTab(c) == [c EXCEPT !.tabOpen = FALSE]

\* closeEvent, docked branch: what becomes of the container.
CloseDocked(c, d, pane) ==
  IF d /\ pane # NoPane
  THEN IF ClosesContainer(c) THEN CloseWholeContainer(c) ELSE CloseOwnTab(c)
  ELSE c

\* AbstractWindow.clearWindowInstance(windowID): drops the identifier's entry
\* from the instance registry and returns it; it makes no host call.
AbstractClearWindowInstance(instances) == {}

\* AbstractWindow.closeEvent marks the window closed.
AbstractCloseEvent(wasClosed) == TRUE

\* closeEvent after its first line (the base class's clearWindowInstance has
\* dropped the registry entry): what it does to the settings, the window's
\* pane, the hidden flag and the window's visibility.  Closing the pane
\* container or the tab of a docked window hides the window inside the
\* handler, so a visible window gets its hideEvent while isClosed() is still
\* false and windowInstance() is already None.
CloseEffects(s, d, raw, g, layout, sizes, pane, vis, hidden) ==
  IF d
  THEN IF pane # NoPane
       THEN [settings |-> IF vis
                          THEN saveWindowPosition(s, d, raw, g, layout, sizes, pane, FALSE)
                          ELSE s,
             windowPane |-> NoPane,
             windowHidden |-> IF vis THEN TRUE ELSE hidden,
             visible |-> FALSE,
             saved |-> vis]
       ELSE [settings |-> s, windowPane |-> pane, windowHidden |-> hidden,
             visible |-> vis, saved |-> FALSE]
  ELSE [settings |-> saveWindowPosition(s, d, raw, g, layout, sizes, pane, FALSE),
        windowPane |-> pane, windowHidden |-> hidden, visible |-> vis,
        saved |-> TRUE]

\* closeEvent: the user, or the host, closes the window.
closeEvent ==
  LET fx == CloseEffects(windowSettings, dockable, dockableRaw, geometry, panes,
                         paneSizes, windowPane, visible, windowHidden)
  IN
  /\ window > 0
  /\ ~closed
  /\ windowInstances' = AbstractClearWindowInstance(windowInstances)
  /\ windowSettings' = fx.settings
  /\ windowPane' = fx.windowPane
  /\ windowHidden' = fx.windowHidden
  /\ visible' = fx.visible
  /\ closed' = AbstractCloseEvent(closed)
  /\ container' = CloseDocked(container, dockable, windowPane)
  /\ live' = live \ {window}
  /\ last' = [Op("closeEvent") EXCEPT !.saved = fx.saved]
  /\ UNCHANGED <<nukeCallbacks, panes, paneSizes, WindowDockable, WindowDefaults,
                 window, dockable, dockableRaw, geometry, numAdds>>
  /\ UNCHANGED pkg

\* NukeWindow.clearWindowInstance(WindowID): the host registrations after
\* removeCallbacks(windowInstance=previousInstance).
ClearCallbacks(host, instances) ==
  IF instances = {} THEN host
  ELSE LET prev == CHOOSE i \in instances : TRUE
       IN nukeCallAll(host, 2, prev.window, prev.entries)

\* Mutant of ClosePrevious: the previous window is left open.
ClosePrevious_LeftOpen(open, instances) == open

\* NukeWindow.clearWindowInstance(WindowID): previousInstance['window'] is
\* closed unless isClosed() says it is closed already.
ClosePrevious(open, instances) == open \ {i.window : i \in instances}

\* show: the dock mode the class-level show resolves before it looks for the
\* namespace.
ShowDocked(attr, s, defaults) ==
  IF attr # "absent" THEN attr = "True"
  ELSE IF s.nuke /\ s.docked # "absent" THEN s.docked = "True"
  ELSE IF defaults # "absent" THEN defaults = "True"
  ELSE TRUE

\* __init__: the dock mode the new window sets for itself.
InitDockable(attr, s) ==
  IF s.nuke /\ s.docked # "absent" THEN s.docked = "True"
  ELSE IF attr # "absent" THEN attr = "True"
  ELSE TRUE

\* Mutant of AttrAfterShow: the attribute keeps the False the fallback gave it.
AttrAfterShow_NotRestored(dockOverride, attr) ==
  IF dockOverride THEN "False" ELSE attr

\* show: cls.WindowDockable once show has returned.  The fallback sets it to
\* False before the window is built and to True afterwards.
AttrAfterShow(dockOverride, attr) ==
  IF dockOverride THEN "True" ELSE attr

\* Mutant of ShowPane: the persisted panel name is not looked at.
ShowPane_AutoOnly(layout, s) == PaneAuto(layout)

\* show: the pane a docked window's panel is added to.
ShowPane(layout, s) ==
  IF s.nuke /\ s.hasDock /\ s.panel # NoPanel
  THEN IF PaneGet(layout, s.panel) # NoPane
       THEN PaneGet(layout, s.panel)
       ELSE PaneAuto(layout)
  ELSE PaneAuto(layout)

\* The class-level show: clear the previous instance, then build the new
\* window as a panel or as a top-level window.  The new window's own
\* constructor and its first showEvent follow as separate steps.
showOf(namespaceFound) ==
    LET replaced == windowInstances # {}
        host1 == ClearCallbacks(nukeCallbacks, windowInstances)
        fx == IF replaced /\ ~closed
              THEN CloseEffects(windowSettings, dockable, dockableRaw, geometry,
                                panes, paneSizes, windowPane, visible, windowHidden)
              ELSE [settings |-> windowSettings, windowPane |-> windowPane,
                    windowHidden |-> windowHidden, visible |-> visible,
                    saved |-> FALSE]
        s == fx.settings
        wanted == ShowDocked(WindowDockable, s, WindowDefaults)
        dockOverride == wanted /\ ~namespaceFound
        docked == wanted /\ namespaceFound
        attr == IF dockOverride THEN "False" ELSE WindowDockable
        own == InitDockable(attr, s)
    IN
    /\ window < MaxWindows
    /\ window' = window + 1
    /\ nukeCallbacks' = host1
    /\ windowInstances' =
         AbstractClearWindowInstance(windowInstances) \cup {NewInstance(window + 1)}
    /\ windowSettings' = s
    /\ windowHidden' = FALSE
    /\ visible' = FALSE
    /\ closed' = FALSE
    /\ live' = ClosePrevious(live, windowInstances) \cup {window + 1}
    /\ container' = IF docked /\ ShowPane(panes, s) # NoPane
                    THEN MainContainer ELSE NoContainer
    /\ IF docked
       THEN /\ windowPane' = ShowPane(panes, s)
            /\ geometry' = DefaultGeometry
            /\ dockable' = own
            /\ dockableRaw' = own
            /\ UNCHANGED WindowDockable
       ELSE /\ windowPane' = NoPane
            /\ geometry' = loadWindowPosition(s, own, DefaultGeometry)
            /\ dockable' = (dockOverride \/ own)
            /\ dockableRaw' = (dockOverride \/ own)
            /\ WindowDockable' = AttrAfterShow(dockOverride, WindowDockable)
    /\ last' = [Op("show") EXCEPT !.result = IF docked THEN 1 ELSE 0,
                                  !.saved = fx.saved]
    /\ UNCHANGED <<panes, paneSizes, WindowDefaults, numAdds>>
    /\ UNCHANGED pkg

show == \E namespaceFound \in BOOLEAN : showOf(namespaceFound)

\* ------------------------------------------------------------------ settings operations

\* saveWindowPosition called on the window; fault says the toolkit fails
\* when the pane's widget is asked for its width.  The base class's
\* saveWindowPosition runs last, when nothing was raised before it.
saveWindowPositionCallOf(fault) ==
  LET err == saveWindowPositionError(dockable, windowPane, fault)
  IN
  /\ window > 0
  /\ windowSettings' =
       saveWindowPosition(windowSettings, dockable, dockableRaw, geometry, panes,
                          paneSizes, windowPane, fault)
  /\ last' = [Op("saveWindowPosition") EXCEPT
                !.result = IF dockable THEN 1 ELSE 0,
                !.err = err,
                !.saved = (err = None)]
  /\ UNCHANGED <<nukeCallbacks, panes, paneSizes, windowPane, classVars, windowVars,
                 numAdds>>
  /\ UNCHANGED otherVars

saveWindowPositionCall == \E fault \in BOOLEAN : saveWindowPositionCallOf(fault)

\* loadWindowPosition called on the window.
loadWindowPositionCall ==
  /\ window > 0
  /\ geometry' = loadWindowPosition(windowSettings, dockable, geometry)
  /\ last' = [Op("loadWindowPosition") EXCEPT
                !.result = IF ~dockable /\ HasStoredGeometry(windowSettings) THEN 1 ELSE 0]
  /\ UNCHANGED <<hostVars, classVars, windowSettings, window, windowHidden, visible,
                 closed, dockable, dockableRaw, numAdds>>
  /\ UNCHANGED otherVars

\* AbstractWindow.setDockable(dockable, override): with override the mode in
\* effect changes, without it only the preference dockable(raw=True) reports.
setDockable ==
  \E value \in BOOLEAN, override \in BOOLEAN :
    /\ window > 0
    /\ dockableRaw' = value
    /\ dockable' = IF override THEN value ELSE dockable
    /\ last' = Op("setDockable")
    /\ UNCHANGED <<hostVars, classVars, windowSettings, window, windowHidden, visible,
                   closed, geometry, numAdds>>
    /\ UNCHANGED otherVars

\* The toolkit's resize of the window.
resize ==
  \E w \in Sizes, h \in Sizes :
    /\ window > 0
    /\ geometry' = [geometry EXCEPT !.width = w, !.height = h]
    /\ last' = Op("resize")
    /\ UNCHANGED <<hostVars, classVars, windowSettings, window, windowHidden, visible,
                   closed, dockable, dockableRaw, numAdds>>
    /\ UNCHANGED otherVars

\* The host docks the window's panel in a pane, or the user drags it out.
dockTo ==
  \E pane \in {NoPane} \cup PaneIds :
    /\ window > 0
    /\ dockable
    /\ windowPane' = pane
    /\ container' = IF pane = NoPane THEN NoContainer ELSE MainContainer
    /\ last' = Op("dockTo")
    /\ UNCHANGED <<nukeCallbacks, panes, paneSizes, classVars, windowSettings,
                   windowVars, numAdds, live, pkg>>

\* The user drags the docked window's tab into a pane container of the
\* main window or into a floating one, next to any other tabs.
floatTo ==
  \E pane \in PaneIds, floats \in BOOLEAN, tabs \in SUBSET OtherTabs :
    /\ window > 0
    /\ dockable
    /\ ~closed
    /\ windowPane # NoPane
    /\ windowPane' = pane
    /\ container' = [floating |-> floats, tabs |-> tabs, open |-> TRUE, tabOpen |-> TRUE]
    /\ last' = Op("floatTo")
    /\ UNCHANGED <<nukeCallbacks, panes, paneSizes, classVars, windowSettings,
                   windowVars, numAdds, live, pkg>>

\* ------------------------------------------------------------------ pane operations

\* Pane.auto()
paneAuto ==
  /\ last' = [Op("Pane.auto") EXCEPT !.result = PaneAuto(panes)]
  /\ UNCHANGED <<hostVars, classVars, windowSettings, windowVars, numAdds>>
  /\ UNCHANGED otherVars

\* Pane.find(WindowID)
paneFind ==
  /\ last' = [Op("Pane.find") EXCEPT !.result = PaneFind(panes, windowPane)]
  /\ UNCHANGED <<hostVars, classVars, windowSettings, windowVars, numAdds>>
  /\ UNCHANGED otherVars

\* ------------------------------------------------------------------ host dispatch

\* Mutant of HostOrder: the nuke branch is tested before the maya branch.
HostOrder_NukeFirst ==
  <<[module |-> "nuke", marker |-> "Nuke", class |-> "NukeWindow"],
    [module |-> "maya", marker |-> "maya.exe", class |-> "MayaWindow"],
    [module |-> "hou", marker |-> "houdini", class |-> "HoudiniWindow"],
    [module |-> "bpy", marker |-> "blender.exe", class |-> "BlenderWindow"],
    [module |-> "unreal", marker |-> "UE4Editor.exe", class |-> "UnrealWindow"],
    [module |-> "MaxPlus", marker |-> "3dsmax.exe", class |-> "MaxWindow"],
    [module |-> "sd", marker |-> "Substance Designer.exe", class |-> "SubstanceWindow"]>>

\* The if / elif chain of the package: the module probed, the marker looked
\* for in sys.executable, and the class imported as VFXWindow.
HostOrder ==
  <<[module |-> "maya", marker |-> "maya.exe", class |-> "MayaWindow"],
    [module |-> "nuke", marker |-> "Nuke", class |-> "NukeWindow"],
    [module |-> "hou", marker |-> "houdini", class |-> "HoudiniWindow"],
    [module |-> "bpy", marker |-> "blender.exe", class |-> "BlenderWindow"],
    [module |-> "unreal", marker |-> "UE4Editor.exe", class |-> "UnrealWindow"],
    [module |-> "MaxPlus", marker |-> "3dsmax.exe", class |-> "MaxWindow"],
    [module |-> "sd", marker |-> "Substance Designer.exe", class |-> "SubstanceWindow"]>>

Modules == {HostOrder[i].module : i \in DOMAIN HostOrder}
Markers == {HostOrder[i].marker : i \in DOMAIN HostOrder}

\* importable(module) and marker in sys.executable
HostMatches(h, importable, executable) ==
  h.module \in importable /\ h.marker \in executable

\* Mutant of NukeBatch: the import written after the raise is reached.
NukeBatch_Imported == [VFXWindow |-> "NukeBatchWindow", err |-> None]

\* The nuke branch when type(sys.stdout) == file: the raise comes first.
NukeBatch == [VFXWindow |-> "unbound", err |-> "NotImplementedError"]

\* The body of the branch of host h.
Branch(h, stdoutIsFile) ==
  IF h.module = "maya"
  THEN [VFXWindow |-> IF stdoutIsFile THEN "MayaBatchWindow" ELSE "MayaWindow",
        err |-> None]
  ELSE IF h.module = "nuke"
  THEN IF stdoutIsFile THEN NukeBatch
       ELSE [VFXWindow |-> "NukeWindow", err |-> None]
  ELSE [VFXWindow |-> h.class, err |-> None]

RECURSIVE DispatchFrom(_, _, _, _)
DispatchFrom(i, importable, executable, stdoutIsFile) ==
  IF i > Len(HostOrder) THEN [VFXWindow |-> "StandaloneWindow", err |-> None]
  ELSE IF HostMatches(HostOrder[i], importable, executable)
       THEN Branch(HostOrder[i], stdoutIsFile)
       ELSE DispatchFrom(i + 1, importable, executable, stdoutIsFile)

\* The package as it stands before its import.
Unloaded(importable, executable, stdoutIsFile) ==
  [importable |-> importable, executable |-> executable,
   stdoutIsFile |-> stdoutIsFile, loaded |-> FALSE,
   VFXWindow |-> "unbound", err |-> None]

\* import vfxwindow: the module-level dispatch runs once.
importPackage ==
  LET out == DispatchFrom(1, pkg.importable, pkg.executable, pkg.stdoutIsFile)
  IN
  /\ ~pkg.loaded
  /\ pkg' = [pkg EXCEPT !.loaded = TRUE, !.VFXWindow = out.VFXWindow, !.err = out.err]
  /\ last' = [Op("import") EXCEPT !.err = out.err]
  /\ UNCHANGED <<hostVars, classVars, windowSettings, windowVars, numAdds,
                 container, live>>

\* The package in a session of the nuke application with its interface up.
NukeSession ==
  [Unloaded({"nuke"}, {"Nuke"}, FALSE) EXCEPT !.loaded = TRUE, !.VFXWindow = "NukeWindow"]

\* ------------------------------------------------------------------ lifecycle specification

\* The panes of the session the lifecycle runs in.
SessionPanes ==
  (PanelName("Properties", 1) :> 1) @@ (PanelName("NodeGraph", 1) :> 2)

SessionPaneSizes == [p \in PaneIds |-> [width |-> p, height |-> 1]]

Init ==
  /\ nukeCallbacks = EmptyBag
  /\ panes = SessionPanes
  /\ paneSizes = SessionPaneSizes
  /\ windowPane = NoPane
  /\ windowInstances = {}
  /\ WindowDockable \in {"absent", "False"}
  /\ WindowDefaults = "absent"
  /\ windowSettings = NoSettings
  /\ window = 0
  /\ windowHidden = FALSE
  /\ visible = FALSE
  /\ closed = FALSE
  /\ dockable = FALSE
  /\ dockableRaw = FALSE
  /\ geometry = DefaultGeometry
  /\ numAdds = 0
  /\ container = NoContainer
  /\ live = {}
  /\ pkg = NukeSession
  /\ last = Op("init")

Next ==
  \/ show
  \/ showEvent
  \/ hideEvent
  \/ closeEvent
  \/ addCallbackOnUserCreate
  \/ addCallbackOnCreate
  \/ addCallbackOnScriptLoad
  \/ addCallbackOnScriptSave
  \/ addCallbackOnScriptClose
  \/ addCallbackOnDestroy
  \/ addCallbackKnobChanged
  \/ addCallbackUpdateUI
  \/ removeCallback
  \/ removeCallbacks

Spec == Init /\ [][Next]_vars

\* ------------------------------------------------------------------ callback claims

\* The registry entries of the window, none once its instance is cleared.
RegistryEntries == IF windowInstances = {} THEN {} ELSE TheInstance.entries

\* Active host registrations of (kind, func, nodeClass) made by window w.
Active(w, kind, func, nodeClass) == CopiesIn(<<w, kind, func, nodeClass>>, nukeCallbacks)

\* Registry entries, over all groups, that record (kind, func, nodeClass).
Recorded(kind, func, nodeClass) ==
  Cardinality({e \in RegistryEntries : e[2] = kind /\ e[3] = func /\ e[4] = nodeClass})

\* The window has had a hide event and no show event since.
JustHidden == last.op = "hideEvent" /\ ~last.spontaneous /\ ~closed

\* C1: while the window is shown, every registry entry has an active host
\* registration for its event kind, callback and node-class filter.
C1_RegistryAgreesWithHost ==
  (window > 0 /\ visible /\ ~windowHidden) =>
    \A e \in RegistryEntries : Active(window, e[2], e[3], e[4]) >= 1

\* C2: right after a hide event of an open window the host holds no active
\* registration of that window's callbacks.
C2_HideLeavesNoRegistration ==
  JustHidden =>
    \A k \in Kinds, f \in Funcs, nc \in NodeClasses : Active(window, k, f, nc) = 0

\* C3: a hide event followed by a show event leaves the host with exactly the
\* registrations the registry records, each one once.
C3_ShowRestoresRegistrations ==
  [][(JustHidden /\ last'.op = "showEvent" /\ ~last'.spontaneous) =>
       \A k \in Kinds, f \in Funcs, nc \in NodeClasses :
         Active(window, k, f, nc)' = Recorded(k, f, nc)]_vars

\* C4: an addCallback* call on a hidden window stores the entry and makes no
\* host call; on a shown window it stores the entry and makes the host call.
C4_AddDeferredWhileHidden ==
  [][\A k \in Kinds, f \in Funcs, nc \in NodeClasses, g \in Groups :
       (addCallback(k, f, nc, g) /\ windowInstances # {} /\ (JustHidden \/ visible)) =>
         /\ <<g, k, f, nc>> \in RegistryEntries'
         /\ Active(window, k, f, nc)' =
              Active(window, k, f, nc) + (IF JustHidden THEN 0 ELSE 1)]_vars

\* C5: the host never holds more registrations of one (kind, callback,
\* filter) than the registry has groups recording it, in runs where every
\* addCallback* call added a new entry and none was removed.
C5_NoDuplicateRegistration ==
  (numAdds = Cardinality(RegistryEntries)) =>
    \A k \in Kinds, f \in Funcs, nc \in NodeClasses :
      Active(window, k, f, nc) <= Recorded(k, f, nc)

\* C6: a removeCallback or removeCallbacks call on a window whose instance is
\* registered completes without error and leaves no entry of the callback
\* (with that filter), or of the group, behind.
C6_RemovalCompletes ==
  [][/\ \A f \in Funcs, g \in Groups, nc \in NodeClasses :
          (removeCallbackOf(f, g, nc) /\ windowInstances # {}
             /\ (g = None \/ g \in TheInstance.groups)) =>
            /\ last'.err = None
            /\ \A e \in RegistryEntries' :
                 ~(e[3] = f /\ e[4] = nc /\ (g = None \/ e[1] = g))
     /\ \A g \in Groups :
          (removeCallbacksOf(g) /\ windowInstances # {}) =>
            /\ last'.err = None
            /\ \A e \in RegistryEntries' : ~(g = None \/ e[1] = g)]_vars

\* C7: when the class-level show creates a new window after the previous
\* one was closed, no host registration made by the previous window is active.
C7_PreviousInstanceRetired ==
  [][(closed /\ last'.op = "show") =>
       \A key \in BagToSet(nukeCallbacks') : key[1] = window']_vars

\* ------------------------------------------------------------------ settings specification

\* One constructed window, floating or docked, of any geometry, with an
\* empty settings record.
InitGeom ==
  /\ nukeCallbacks = EmptyBag
  /\ panes = SessionPanes
  /\ paneSizes = SessionPaneSizes
  /\ windowInstances = {NewInstance(1)}
  /\ WindowDockable = "absent"
  /\ WindowDefaults = "absent"
  /\ windowSettings = NoSettings
  /\ window = 1
  /\ windowHidden = FALSE
  /\ visible = TRUE
  /\ closed = FALSE
  /\ dockable \in BOOLEAN
  /\ dockableRaw = dockable
  /\ windowPane = IF dockable THEN 1 ELSE NoPane
  /\ geometry \in [width : Sizes, height : Sizes, x : Positions, y : Positions]
  /\ numAdds = 0
  /\ container = IF dockable THEN MainContainer ELSE NoContainer
  /\ live = {1}
  /\ pkg = NukeSession
  /\ last = Op("init")

NextGeom ==
  \/ saveWindowPositionCall
  \/ loadWindowPositionCall
  \/ setDockable
  \/ resize
  \/ dockTo

SpecGeom == InitGeom /\ [][NextGeom]_vars

\* ------------------------------------------------------------------ pane specification

RECURSIVE SubsetsUpTo(_, _)
SubsetsUpTo(S, n) ==
  IF n = 0 THEN {{}}
  ELSE LET smaller == SubsetsUpTo(S, n - 1)
       IN smaller \cup {T \cup {x} : T \in smaller, x \in S}

\* The pane layouts drawn: at most MaxPanels panel names resolve, each to
\* one of the host's panes.
Layouts ==
  UNION {[names -> PaneIds] :
           names \in SubsetsUpTo({PanelName(k, i) : k \in PanelKinds, i \in 1..MaxIndex},
                                 MaxPanels)}

InitPane ==
  /\ nukeCallbacks = EmptyBag
  /\ panes \in Layouts
  /\ paneSizes = SessionPaneSizes
  /\ windowPane \in {NoPane} \cup PaneIds
  /\ windowInstances = {}
  /\ WindowDockable = "absent"
  /\ WindowDefaults = "absent"
  /\ windowSettings = NoSettings
  /\ window = 0
  /\ windowHidden = FALSE
  /\ visible = FALSE
  /\ closed = FALSE
  /\ dockable = FALSE
  /\ dockableRaw = FALSE
  /\ geometry = DefaultGeometry
  /\ numAdds = 0
  /\ container = NoContainer
  /\ live = {}
  /\ pkg = NukeSession
  /\ last = Op("init")

NextPane ==
  \/ paneAuto
  \/ paneFind

SpecPane == InitPane /\ [][NextPane]_vars

\* ------------------------------------------------------------------ docking specification

\* The pane layouts of the sessions class-level show runs in.
DockLayouts == {SessionPanes, PanelName("Viewer", 1) :> 2}

\* The settings records a session starts with: none, or one an earlier
\* session left, with or without a dock preference and a panel name.
StoredDock ==
  {NoSettings} \cup
  {[nuke |-> TRUE, docked |-> d, hasDock |-> TRUE, dock |-> EmptyDict, panel |-> p,
    hasMain |-> FALSE, main |-> EmptyDict] :
     d \in {"absent", "True", "False"},
     p \in {NoPanel, PanelName("NodeGraph", 1), PanelName("Viewer", 1)}}

InitDock ==
  /\ nukeCallbacks = EmptyBag
  /\ panes \in DockLayouts
  /\ paneSizes = SessionPaneSizes
  /\ windowPane = NoPane
  /\ windowInstances = {}
  /\ WindowDockable \in {"absent", "True", "False"}
  /\ WindowDefaults \in {"absent", "False"}
  /\ windowSettings \in StoredDock
  /\ window = 0
  /\ windowHidden = FALSE
  /\ visible = FALSE
  /\ closed = FALSE
  /\ dockable = FALSE
  /\ dockableRaw = FALSE
  /\ geometry = DefaultGeometry
  /\ numAdds = 0
  /\ container = NoContainer
  /\ live = {}
  /\ pkg = NukeSession
  /\ last = Op("init")

NextDock ==
  \/ show
  \/ showEvent
  \/ hideEvent
  \/ closeEvent
  \/ floatTo

SpecDock == InitDock /\ [][NextDock]_vars

\* ------------------------------------------------------------------ load specification

\* The values an earlier session stored for a floating window.
StoredValue ==
  [x |-> Padding + MaxOffset, y |-> Padding + MaxOffset,
   width |-> MaxSize, height |-> MaxSize]

\* The 'main' branches drawn: any of the four keys may be missing.
StoredMain == {[k \in keys |-> StoredValue[k]] : keys \in SUBSET {"x", "y", "width", "height"}}

StoredLoad ==
  {NoSettings, [NoSettings EXCEPT !.nuke = TRUE]} \cup
  {[NoSettings EXCEPT !.nuke = TRUE, !.hasMain = TRUE, !.main = m] : m \in StoredMain}

InitLoad ==
  /\ nukeCallbacks = EmptyBag
  /\ panes = SessionPanes
  /\ paneSizes = SessionPaneSizes
  /\ windowInstances = {NewInstance(1)}
  /\ WindowDockable = "absent"
  /\ WindowDefaults = "absent"
  /\ windowSettings \in StoredLoad
  /\ window = 1
  /\ windowHidden = FALSE
  /\ visible = TRUE
  /\ closed = FALSE
  /\ dockable \in BOOLEAN
  /\ dockableRaw = dockable
  /\ windowPane = IF dockable THEN 1 ELSE NoPane
  /\ geometry \in [width : Sizes, height : Sizes, x : {Padding}, y : {Padding}]
  /\ numAdds = 0
  /\ container = IF dockable THEN MainContainer ELSE NoContainer
  /\ live = {1}
  /\ pkg = NukeSession
  /\ last = Op("init")

NextLoad ==
  \/ loadWindowPositionCall
  \/ resize

SpecLoad == InitLoad /\ [][NextLoad]_vars

\* ------------------------------------------------------------------ save specification

\* One docked window in a pane, with an empty settings record; the host
\* moves it between panes and the user drags it.
InitSave ==
  /\ nukeCallbacks = EmptyBag
  /\ panes = SessionPanes
  /\ paneSizes = SessionPaneSizes
  /\ windowInstances = {NewInstance(1)}
  /\ WindowDockable = "absent"
  /\ WindowDefaults = "absent"
  /\ windowSettings = NoSettings
  /\ window = 1
  /\ windowHidden = FALSE
  /\ visible = TRUE
  /\ closed = FALSE
  /\ dockable = TRUE
  /\ dockableRaw \in BOOLEAN
  /\ windowPane \in PaneIds
  /\ geometry \in [width : {1}, height : {1}, x : Positions, y : {Padding}]
  /\ numAdds = 0
  /\ container = MainContainer
  /\ live = {1}
  /\ pkg = NukeSession
  /\ last = Op("init")

NextSave ==
  \/ saveWindowPositionCall
  \/ dockTo

SpecSave == InitSave /\ [][NextSave]_vars

\* ------------------------------------------------------------------ dispatch specification

\* Every set of importable host modules, every set of markers found in the
\* executable path, standard output a plain file or not.
InitHost ==
  /\ nukeCallbacks = EmptyBag
  /\ panes = SessionPanes
  /\ paneSizes = SessionPaneSizes
  /\ windowPane = NoPane
  /\ windowInstances = {}
  /\ WindowDockable = "absent"
  /\ WindowDefaults = "absent"
  /\ windowSettings = NoSettings
  /\ window = 0
  /\ windowHidden = FALSE
  /\ visible = FALSE
  /\ closed = FALSE
  /\ dockable = FALSE
  /\ dockableRaw = FALSE
  /\ geometry = DefaultGeometry
  /\ numAdds = 0
  /\ container = NoContainer
  /\ live = {}
  /\ pkg \in {Unloaded(i, e, f) : i \in SUBSET Modules, e \in SUBSET Markers, f \in BOOLEAN}
  /\ last = Op("init")

NextHost ==
  \/ importPackage

SpecHost == InitHost /\ [][NextHost]_vars

\* ---------------------------------------------------------------------
\* Hide and show events of a window with callbacks, open or closed: the
\* class-level show, the three event handlers and one kind of callback.
InitEvents ==
  /\ nukeCallbacks = EmptyBag
  /\ panes = SessionPanes
  /\ paneSizes = SessionPaneSizes
  /\ windowPane = NoPane
  /\ windowInstances = {}
  /\ WindowDockable \in {"absent", "True", "False"}
  /\ WindowDefaults = "absent"
  /\ windowSettings = NoSettings
  /\ window = 0
  /\ windowHidden = FALSE
  /\ visible = FALSE
  /\ closed = FALSE
  /\ dockable = FALSE
  /\ dockableRaw = FALSE
  /\ geometry = DefaultGeometry
  /\ numAdds = 0
  /\ container = NoContainer
  /\ live = {}
  /\ pkg = NukeSession
  /\ last = Op("init")

NextEvents ==
  \/ show
  \/ showEvent
  \/ hideEvent
  \/ closeEvent
  \/ addCallbackOnUserCreate

SpecEvents == InitEvents /\ [][NextEvents]_vars

\* ------------------------------------------------------------------ settings claims

\* C8 as claimed: exactly one of the 'dock' and 'main' branches is populated,
\* and after a save it is the one matching the window's dock state.
C8_ExactlyOneBranch ==
  windowSettings.nuke =>
    /\ windowSettings.hasDock # windowSettings.hasMain
    /\ (last.op = "saveWindowPosition" => (windowSettings.hasDock <=> dockable))

\* C8 as amended: every save creates the host key, stores the dock
\* preference under 'docked', populates the branch matching the window's
\* dock state at that save and leaves the other branch as it was.
C8_SavePopulatesMatchingBranch ==
  [][(last'.op = "saveWindowPosition") =>
       /\ windowSettings'.nuke
       /\ windowSettings'.docked = PyBool(dockableRaw)
       /\ IF dockable
          THEN /\ windowSettings'.hasDock
               /\ windowSettings'.hasMain = windowSettings.hasMain
               /\ windowSettings'.main = windowSettings.main
          ELSE /\ windowSettings'.hasMain
               /\ windowSettings'.hasDock = windowSettings.hasDock
               /\ windowSettings'.dock = windowSettings.dock
               /\ windowSettings'.panel = windowSettings.panel]_vars

\* A save after a dock-mode change: both branches are populated.
C8_BothBranchesPopulated ==
  /\ last.op = "saveWindowPosition"
  /\ windowSettings.hasDock
  /\ windowSettings.hasMain

\* The window, with its padding, lies within the screen.
InScreen(g) ==
  /\ g.x >= Padding /\ g.x + g.width <= ScreenSize - Padding
  /\ g.y >= Padding /\ g.y + g.height <= ScreenSize - Padding

\* C9: for a floating window within the screen, saveWindowPosition followed
\* by loadWindowPosition leaves width, height, x and y as they were at the
\* save.
C9_SaveLoadRoundTrip ==
  [][(last.op = "saveWindowPosition" /\ ~dockable /\ InScreen(geometry)
        /\ last'.op = "loadWindowPosition") =>
       geometry' = geometry]_vars

\* ------------------------------------------------------------------ pane claims

\* The panel kinds in the order the claim lists them.
ClaimedOrder ==
  <<"Properties", "NodeGraph", "Viewer", "DopeSheet", "CurveEditor",
    "PixelAnalyzer", "Progress", "ErrorConsole", "ScriptEditor", "Histogram",
    "Waveform", "Vectorscope", "Toolbar">>

\* The places of the claimed order whose kind resolves to a pane at index 1.
Resolved == {i \in DOMAIN ClaimedOrder : getPaneFor(panes, PanelName(ClaimedOrder[i], 1)) # NoPane}

\* C10: Pane.auto returns the pane of the first kind of the claimed order
\* that resolves at index 1, and none, without raising, when no kind resolves.
C10_AutoPicksFirstInPriority ==
  last.op = "Pane.auto" =>
    /\ last.err = None
    /\ IF Resolved = {}
       THEN last.result = NoPane
       ELSE \E i \in Resolved :
              /\ \A j \in Resolved : i <= j
              /\ last.result = panes[PanelName(ClaimedOrder[i], 1)]

\* Pane.auto passed over the first kinds and chose between two resolved
\* kinds with different panes.
C10_AutoFellBack ==
  /\ last.op = "Pane.auto"
  /\ 1 \notin Resolved
  /\ \E i \in Resolved, j \in Resolved :
       /\ i < j
       /\ panes[PanelName(ClaimedOrder[i], 1)] # panes[PanelName(ClaimedOrder[j], 1)]
       /\ last.result = panes[PanelName(ClaimedOrder[i], 1)]

\* ------------------------------------------------------------------ close claims

\* C11: the close event of a docked window that exists closes the pane
\* container when the window is the only tab of a floating container, and
\* when the container holds other tabs it closes the window's own tab only:
\* the other tabs and the container stay open.
C11_CloseContainerOrTab ==
  [][(last'.op = "closeEvent" /\ dockable /\ windowPane # NoPane) =>
       /\ (container.floating /\ container.tabs = {}) => ~container'.open
       /\ (container.tabs # {}) =>
            /\ container'.open = container.open
            /\ container'.tabs = container.tabs
            /\ ~container'.tabOpen]_vars

\* A close event has closed the floating container the window was alone in.
C11_FloatingContainerClosed ==
  /\ last.op = "closeEvent"
  /\ dockable
  /\ container.floating
  /\ ~container.open

\* ------------------------------------------------------------------ dispatch claims

\* The hosts in the order the claim lists them: the module probed, the
\* executable marker, and the window classes of the host.
ClaimedHosts ==
  <<[module |-> "maya", marker |-> "maya.exe", classes |-> {"MayaWindow", "MayaBatchWindow"}],
    [module |-> "nuke", marker |-> "Nuke", classes |-> {"NukeWindow", "NukeBatchWindow"}],
    [module |-> "hou", marker |-> "houdini", classes |-> {"HoudiniWindow"}],
    [module |-> "bpy", marker |-> "blender.exe", classes |-> {"BlenderWindow"}],
    [module |-> "unreal", marker |-> "UE4Editor.exe", classes |-> {"UnrealWindow"}],
    [module |-> "MaxPlus", marker |-> "3dsmax.exe", classes |-> {"MaxWindow"}],
    [module |-> "sd", marker |-> "Substance Designer.exe", classes |-> {"SubstanceWindow"}]>>

\* The places of the claimed order whose host is importable and whose marker
\* is in the executable path.
Matching ==
  {i \in DOMAIN ClaimedHosts : /\ ClaimedHosts[i].module \in pkg.importable
                               /\ ClaimedHosts[i].marker \in pkg.executable}

\* The first matching place, 0 when no host matches.
FirstMatch == IF Matching = {} THEN 0 ELSE CHOOSE i \in Matching : \A j \in Matching : i <= j

\* The window classes the claim allows the package to expose.
ClaimedClasses ==
  IF FirstMatch = 0 THEN {"StandaloneWindow"} ELSE ClaimedHosts[FirstMatch].classes

\* nuke is the detected host and standard output is a plain file.
NukeInBatchMode == FirstMatch = 2 /\ pkg.stdoutIsFile

\* C12 as claimed: for every combination of importable modules and
\* executable markers the loaded package exposes a window class of the first
\* matching host, or the standalone class when no host matches.
C12_AlwaysOneClass ==
  pkg.loaded => (pkg.err = None /\ pkg.VFXWindow \in ClaimedClasses)

\* C12 as amended: the same, except when nuke is the detected host and runs
\* in batch mode.
C12_FirstHostUnlessNukeBatch ==
  (pkg.loaded /\ ~NukeInBatchMode) =>
    (pkg.err = None /\ pkg.VFXWindow \in ClaimedClasses)

\* Two hosts match, an earlier module is importable without its marker, and
\* the package exposes the class of the first matching host.
C12_FirstOfTwoMatches ==
  /\ pkg.loaded
  /\ FirstMatch = 3
  /\ Cardinality(Matching) = 2
  /\ "maya" \in pkg.importable
  /\ pkg.VFXWindow = "HoudiniWindow"

\* C13: with nuke the detected host in batch mode, loading the package
\* raises NotImplementedError and binds no window class.
C13_NukeBatchFailsFast ==
  (pkg.loaded /\ NukeInBatchMode) =>
    (pkg.err = "NotImplementedError" /\ pkg.VFXWindow = "unbound")

\* The package was loaded under nuke in batch mode while a later host
\* matched as well.
C13_LaterHostNotTried ==
  /\ pkg.loaded
  /\ NukeInBatchMode
  /\ 3 \in Matching
  /\ last.err = "NotImplementedError"

\* ------------------------------------------------------------------ show claims

C18_OneLiveInstance == Cardinality(live) <= 1

\* A class-level show has closed the open window it replaced.
C18_OpenWindowReplaced ==
  /\ last.op = "show"
  /\ last.saved
  /\ window = 2
  /\ live = {2}

\* C19: the pane a docked show attaches the panel to is the pane of the
\* persisted panel name when one is stored and resolves, and the pane
\* Pane.auto chooses otherwise.
C19_PaneOfDockedShow ==
  [][(last'.op = "show" /\ last'.result = 1) =>
       windowPane' =
         IF /\ windowSettings'.nuke
            /\ windowSettings'.hasDock
            /\ windowSettings'.panel # NoPanel
            /\ getPaneFor(panes, windowSettings'.panel) # NoPane
         THEN getPaneFor(panes, windowSettings'.panel)
         ELSE PaneAuto(panes)]_vars

\* A docked show has chosen the persisted pane over the one Pane.auto picks.
C19_StoredPaneChosen ==
  /\ last.op = "show"
  /\ last.result = 1
  /\ windowSettings.panel # NoPanel
  /\ windowPane = getPaneFor(panes, windowSettings.panel)
  /\ windowPane # PaneAuto(panes)

\* ------------------------------------------------------------------ save and load claims

\* C15: saveWindowPosition on a docked window whose pane does not resolve
\* raises nothing, leaves the stored docked width, height, x and y as they
\* were and runs the rest of the save; a RuntimeError with another message
\* reaches the caller.
C15_QuantumSwallowed ==
  [][\A fault \in BOOLEAN :
       (saveWindowPositionCallOf(fault) /\ dockable) =>
         /\ (windowPane = NoPane) =>
              /\ last'.err = None
              /\ windowSettings'.dock = windowSettings.dock
              /\ windowSettings'.docked = PyBool(dockableRaw)
              /\ last'.saved
         /\ (windowPane # NoPane /\ fault) => last'.err = "RuntimeError"]_vars

\* A save of a dragged window has kept the geometry of an earlier save.
C15_GeometryKept ==
  /\ last.op = "saveWindowPosition"
  /\ dockable
  /\ windowPane = NoPane
  /\ last.err = None
  /\ "width" \in DOMAIN windowSettings.dock

\* All of x, y, width and height are stored in the floating branch.
AllFourStored ==
  /\ windowSettings.nuke
  /\ windowSettings.hasMain
  /\ \A k \in {"x", "y", "width", "height"} : k \in DOMAIN windowSettings.main

\* C16: loadWindowPosition leaves a docked window alone; on a floating one
\* it applies the stored size and the stored position, kept on screen, when
\* all four values are stored, and the default load otherwise.
C16_LoadFallsBackToDefault ==
  [][(last'.op = "loadWindowPosition") =>
       IF dockable THEN geometry' = geometry
       ELSE IF AllFourStored
            THEN /\ geometry'.width = windowSettings.main["width"]
                 /\ geometry'.height = windowSettings.main["height"]
                 /\ geometry'.x = windowSettings.main["x"]
                 /\ geometry'.y = windowSettings.main["y"]
            ELSE geometry' = DefaultGeometry]_vars

\* A load found some of the four values, not all, and used the default.
C16_PartialFellBack ==
  /\ last.op = "loadWindowPosition"
  /\ ~dockable
  /\ windowSettings.hasMain
  /\ {"width", "height", "x"} \subseteq DOMAIN windowSettings.main
  /\ ~AllFourStored
  /\ geometry = DefaultGeometry

\* C17: a hide event of an open window that the program asked for, and a
\* close event of a window on screen, leave the settings record with the dock
\* preference under 'docked' and x, y, width and height in the branch of the
\* window's dock state.
C17_HideAndCloseSave ==
  [][(\/ (last'.op = "hideEvent" /\ ~last'.spontaneous /\ ~closed)
      \/ (last'.op = "closeEvent" /\ visible)) =>
       /\ windowSettings'.nuke
       /\ windowSettings'.docked = PyBool(dockableRaw)
       /\ {"x", "y", "width", "height"} \subseteq
            DOMAIN (IF dockable THEN windowSettings'.dock ELSE windowSettings'.main)]_vars

\* ------------------------------------------------------------------ find claims

\* The panel names whose pane is the window's pane.
Sharing == {name \in DOMAIN panes : panes[name] = windowPane}

\* The place of a panel name's kind in the claimed order.
Rank(name) == CHOOSE i \in DOMAIN ClaimedOrder : PanelPrefix[ClaimedOrder[i]] = name[1]

\* C20: Pane.find returns none when the window has no pane or no named pane
\* shares it, and otherwise the name, first in priority order and of lowest
\* index, of a named pane that shares it.
C20_FindNamesSharedPane ==
  last.op = "Pane.find" =>
    IF windowPane = NoPane \/ Sharing = {}
    THEN last.result = NoPanel
    ELSE /\ last.result \in Sharing
         /\ \A n \in Sharing :
              \/ Rank(last.result) < Rank(n)
              \/ (Rank(last.result) = Rank(n) /\ last.result[2] <= n[2])

\* ------------------------------------------------------------------ removal claims

\* Registry entries of group g that record (kind, func, nodeClass).
RecordedIn(g, kind, func, nodeClass) ==
  IF <<g, kind, func, nodeClass>> \in RegistryEntries THEN 1 ELSE 0

\* C21: removeCallbacks(group=g) deletes the entries of group g and leaves
\* none of them active in the host, leaves the entries and the host
\* registrations of every other group as they were, and changes nothing and
\* returns 0 when g is not a group of the registry; removeCallbacks with no
\* group leaves the registry with no group.
C21_RemoveGroupOnly ==
  [][/\ \A g \in Groups \ {None} :
          (removeCallbacksOf(g) /\ windowInstances # {}) =>
            /\ RegistryEntries' = {e \in RegistryEntries : e[1] # g}
            /\ TheInstance'.groups = TheInstance.groups \ {g}
            /\ \A k \in Kinds, f \in Funcs, nc \in NodeClasses :
                 LET others == Recorded(k, f, nc) - RecordedIn(g, k, f, nc)
                 IN IF RecordedIn(g, k, f, nc) = 0
                    THEN Active(window, k, f, nc)' = Active(window, k, f, nc)
                    ELSE /\ Active(window, k, f, nc)' <= others
                         /\ \/ Active(window, k, f, nc)' >= others
                            \/ Active(window, k, f, nc)' = Active(window, k, f, nc)
            /\ (g \notin TheInstance.groups) =>
                 /\ UNCHANGED <<windowInstances, nukeCallbacks>>
                 /\ last'.result = 0
     /\ (removeCallbacksOf(None) /\ windowInstances # {}) =>
          (TheInstance'.groups = {} /\ RegistryEntries' = {})]_vars

\* C22: removeCallback(func, nodeClass=X) with a filter X leaves the
\* registry entries and the host registrations of func under every other
\* filter, and under no filter, as they were.
C22_RemoveFilterOnly ==
  [][\A f \in Funcs, g \in Groups, X \in NodeClasses \ {None} :
       (removeCallbackOf(f, g, X) /\ windowInstances # {}) =>
         \A k \in Kinds, nc \in NodeClasses \ {X} :
           /\ Active(window, k, f, nc)' = Active(window, k, f, nc)
           /\ \A h \in Groups :
                <<h, k, f, nc>> \in RegistryEntries => <<h, k, f, nc>> \in RegistryEntries']_vars

\* C23: after the close event of a visible window with callbacks in its
\* registry the host holds no active registration of that window.
C23_CloseLeavesNoRegistration ==
  [][(last'.op = "closeEvent" /\ visible /\ RegistryEntries # {}) =>
       \A k \in Kinds, f \in Funcs, nc \in NodeClasses :
         Active(window, k, f, nc)' = 0]_vars

\* ------------------------------------------------------------------ dock mode claims

\* C24: when the namespace is found, the dock mode the class-level show
\* builds the window in is the dock mode the window's constructor sets.
C24_ShowAndConstructorAgree ==
  [][showOf(TRUE) => ((last'.result = 1) <=> dockable')]_vars

\* ------------------------------------------------------------------ event claims

\* C25: a spontaneous hide or show event leaves the registry, the host's
\* registrations, the hidden flag and the settings record as they were; a
\* hide event of a closed window leaves the host's registrations and the
\* settings record as they were and saves nothing.
C25_SpontaneousEventsIgnored ==
  [][/\ (last'.op \in {"hideEvent", "showEvent"} /\ last'.spontaneous) =>
          UNCHANGED <<windowInstances, nukeCallbacks, windowHidden, windowSettings>>
     /\ (last'.op = "hideEvent" /\ closed) =>
          (UNCHANGED <<nukeCallbacks, windowSettings>> /\ ~last'.saved)]_vars

\* A closed window whose registrations are still active has had its hide
\* event.
C25_ClosedWindowHidden ==
  /\ last.op = "hideEvent"
  /\ ~last.spontaneous
  /\ closed
  /\ nukeCallbacks # EmptyBag

====
